---- MODULE Spec2Model ----
(***************************************************************************)
(* Band-edge extraction and window construction of vaspy/cli/bandstats.py. *)
(*                                                                         *)
(* Two specifications share the variables below:                           *)
(*   Spec      one call of get_band_edges, with vkpts/ckpts built the way  *)
(*             main builds them (map(int, ...)) and the scan over the      *)
(*             k-points taken one loop iteration at a time;                *)
(*   SpecData  one call of get_data, one (edge, x) iteration at a time.    *)
(*                                                                         *)
(* Energies and the tolerance are integers (a fixed-point grid), so the    *)
(* comparisons > tol and < tol are the exact comparisons of the code on    *)
(* values where the float subtraction is exact.  k-points are 3-vectors of *)
(* integers.  Logging calls change no state and are left out.              *)
(***************************************************************************)
EXTENDS Integers, Sequences, FiniteSets

\* ---------------------------------------------------------------- bounds
MaxN == 3        \* longest path of the edge-finder specification
EMax == 1        \* energies are drawn from 0..EMax
MaxTol == 2      \* tol is drawn from 1..MaxTol
MaxPath == 3     \* longest path of the get_data specification
MaxSteps == 2    \* steps is drawn from 1..MaxSteps
KMax == 1        \* k-point coordinates are drawn from 0..KMax

\* float("inf") of lines 126 and 148, float("-inf") of line 125: a value
\* above (below) every energy and every difference of energies plus tol.
Inf == 1000
NegInf == -1000

VARIABLES
    kpoints,      \* the k-point path, a sequence of 3-vectors
    vb, cb,       \* valence / conduction energies along the path
    tol,          \* energy tolerance
    args_vkpts,   \* the integers of args.vkpts.split(','), in order
    args_ckpts,   \* the integers of args.ckpts.split(','), in order
    lazy_map,     \* TRUE: map() returns a one-shot iterator; FALSE: a list
    vkpts, ckpts, \* the objects handed to get_band_edges: what is left in them
    vbm, cbm,     \* vbm['energy'], cbm['energy']
    vbms, cbms,   \* the band-edge lists
    bg_direct,    \* the direct-gap cluster
    k_num,        \* 1-based loop counter of the scan
    bg_indirect,  \* the indirect gap, "unset" until computed
    band,         \* get_data: the band whose edges are expanded
    band_edges,   \* get_data: the list of edges
    steps,        \* get_data: number of k-points to step away
    data,         \* get_data: the windows built so far
    edge_i,       \* get_data: position in band_edges (1-based)
    x_i,          \* get_data: position in [-steps, steps] (1-based)
    pc,           \* control point
    err           \* "none" or the name of the exception raised

vars == <<kpoints, vb, cb, tol, args_vkpts, args_ckpts, lazy_map, vkpts,
          ckpts, vbm, cbm, vbms, cbms, bg_direct, k_num, bg_indirect,
          band, band_edges, steps, data, edge_i, x_i, pc, err>>

edgeVars == <<vb, cb, tol, args_vkpts, args_ckpts, lazy_map, vkpts, ckpts,
              vbm, cbm, vbms, cbms, bg_direct, k_num, bg_indirect>>

dataVars == <<band, band_edges, steps, data, edge_i, x_i>>

\* ------------------------------------------------------- python helpers
Abs(a) == IF a < 0 THEN -a ELSE a

Min2(a, b) == IF a < b THEN a ELSE b

Max2(a, b) == IF a > b THEN a ELSE b

Range(s) == {s[i] : i \in 1..Len(s)}

\* `k in obj` for obj a list: membership, the list is untouched.
\* `k in obj` for obj a map iterator: items are consumed up to and including
\* the first one equal to k; when there is none the iterator is exhausted.
PyIn(k, obj, lazy) ==
    IF ~lazy
    THEN [found |-> k \in Range(obj), rest |-> obj]
    ELSE IF k \in Range(obj)
         THEN LET j == CHOOSE i \in 1..Len(obj) :
                           /\ obj[i] = k
                           /\ \A h \in 1..(i - 1) : obj[h] # k
              IN  [found |-> TRUE, rest |-> SubSeq(obj, j + 1, Len(obj))]
         ELSE [found |-> FALSE, rest |-> <<>>]

\* seq[a:b] for 0 <= a, with python's clamping of b to len(seq)
PySlice(seq, a, b) == SubSeq(seq, a + 1, Min2(b, Len(seq)))

\* seq[1:]
PyTail(seq) == SubSeq(seq, 2, Len(seq))

\* seq[::-1]
Reverse(seq) == [i \in 1..Len(seq) |-> seq[Len(seq) + 1 - i]]

\* ------------------------------------------------------- get_band_edges
\* lines 125-131: the running maximum of vb and minimum of cb
RECURSIVE RunningMax(_, _, _)
RunningMax(seq, i, acc) ==
    IF i > Len(seq) THEN acc
    ELSE RunningMax(seq, i + 1, IF seq[i] > acc THEN seq[i] ELSE acc)

RECURSIVE RunningMin(_, _, _)
RunningMin(seq, i, acc) ==
    IF i > Len(seq) THEN acc
    ELSE RunningMin(seq, i + 1, IF seq[i] < acc THEN seq[i] ELSE acc)

\* {'num': k_num, 'loc': kpoint, 'e': energy}
Entry(num, loc, e) == [num |-> num, loc |-> loc, e |-> e]

\* lines 151 and 153, the part after `or`
WithinTol(e, extremum, t) == Abs(e - extremum) < t

\* lines 161-164: what the scan does with the gap bg at the current k-point
GapBranchClearsLate(best, bg, t) ==
    IF best - bg > 2 * t THEN "replace"
    ELSE IF Abs(best - bg) < t THEN "append"
    ELSE "skip"

GapBranchNeverClears(best, bg, t) ==
    IF best - bg > t THEN "append"
    ELSE IF Abs(best - bg) < t THEN "append"
    ELSE "skip"

GapBranch(best, bg, t) ==
    IF best - bg > t THEN "replace"
    ELSE IF Abs(best - bg) < t THEN "append"
    ELSE "skip"

\* list[0]: the first item, or IndexError on an empty list
PyFirst(list) ==
    IF Len(list) = 0 THEN [exc |-> "IndexError"]
    ELSE [exc |-> "none", val |-> list[1]]

\* line 178
IndirectGapOfExtrema(cs, vs) == RunningMin([i \in 1..Len(cs) |-> cs[i].e], 1, Inf)
                                - RunningMax([i \in 1..Len(vs) |-> vs[i].e], 1, NegInf)

IndirectGap(cs, vs) == PyFirst(cs).val.e - PyFirst(vs).val.e

\* the straight path used by the edge-finder specification
LinePath(n) == [i \in 1..n |-> <<i - 1, KMax, 0>>]

Energies == 0..EMax

\* -v / -c absent, or naming one k-point of the longest path
ForcedLists == {<<>>} \cup {<<i>> : i \in 1..MaxN}

Init ==
    /\ \E n \in 0..MaxN :
          /\ kpoints = LinePath(n)
          /\ vb \in [1..n -> Energies]
          /\ cb \in [1..n -> Energies]
    /\ tol \in 1..MaxTol
    /\ args_vkpts \in ForcedLists
    /\ args_ckpts \in ForcedLists
    /\ lazy_map \in BOOLEAN
    /\ vkpts = args_vkpts
    /\ ckpts = args_ckpts
    /\ vbm = NegInf
    /\ cbm = Inf
    /\ vbms = <<>>
    /\ cbms = <<>>
    /\ bg_direct = <<[e |-> Inf]>>
    /\ k_num = 1
    /\ bg_indirect = "unset"
    /\ band = <<>>
    /\ band_edges = <<>>
    /\ steps = 1
    /\ data = <<>>
    /\ edge_i = 1
    /\ x_i = 1
    /\ pc = "extrema"
    /\ err = "none"

\* lines 125-131 (zip stops at the shorter of vb and cb)
FindExtrema ==
    /\ pc = "extrema"
    /\ vbm' = RunningMax(SubSeq(vb, 1, Min2(Len(vb), Len(cb))), 1, NegInf)
    /\ cbm' = RunningMin(SubSeq(cb, 1, Min2(Len(vb), Len(cb))), 1, Inf)
    /\ pc' = "scan"
    /\ UNCHANGED <<kpoints, vb, cb, tol, args_vkpts, args_ckpts, lazy_map,
                   vkpts, ckpts, vbms, cbms, bg_direct, k_num, bg_indirect,
                   dataVars, err>>

\* lines 150-166: one iteration of the scan
ScanStep ==
    /\ pc = "scan"
    /\ k_num <= Min2(Len(kpoints), Min2(Len(vb), Len(cb)))
    /\ LET kpoint == kpoints[k_num]
           v_e == vb[k_num]
           c_e == cb[k_num]
           vin == PyIn(k_num, vkpts, lazy_map)
           cin == PyIn(k_num, ckpts, lazy_map)
           bg == c_e - v_e
           branch == GapBranch(bg_direct[1].e, bg, tol)
       IN  /\ vkpts' = vin.rest
           /\ ckpts' = cin.rest
           /\ vbms' = IF vin.found \/ WithinTol(v_e, vbm, tol)
                      THEN Append(vbms, Entry(k_num, kpoint, v_e))
                      ELSE vbms
           /\ cbms' = IF cin.found \/ WithinTol(c_e, cbm, tol)
                      THEN Append(cbms, Entry(k_num, kpoint, c_e))
                      ELSE cbms
           /\ bg_direct' = CASE branch = "replace" -> <<Entry(k_num, kpoint, bg)>>
                             [] branch = "append" -> Append(bg_direct, Entry(k_num, kpoint, bg))
                             [] OTHER -> bg_direct
    /\ k_num' = k_num + 1
    /\ UNCHANGED <<kpoints, vb, cb, tol, args_vkpts, args_ckpts, lazy_map,
                   vbm, cbm, bg_indirect, dataVars, pc, err>>

\* the loop of line 150 is exhausted
ScanEnd ==
    /\ pc = "scan"
    /\ k_num > Min2(Len(kpoints), Min2(Len(vb), Len(cb)))
    /\ pc' = "report"
    /\ UNCHANGED <<kpoints, edgeVars, dataVars, err>>

\* line 178 with both lists non-empty, then the return of line 185
ReportGaps ==
    /\ pc = "report"
    /\ PyFirst(cbms).exc = "none"
    /\ PyFirst(vbms).exc = "none"
    /\ bg_indirect' = IndirectGap(cbms, vbms)
    /\ pc' = "done"
    /\ UNCHANGED <<kpoints, vb, cb, tol, args_vkpts, args_ckpts, lazy_map,
                   vkpts, ckpts, vbm, cbm, vbms, cbms, bg_direct, k_num,
                   dataVars, err>>

\* line 178 with an empty list: cbms[0] (or vbms[0]) raises, nothing returned
ReportFails ==
    /\ pc = "report"
    /\ \/ PyFirst(cbms).exc # "none"
       \/ PyFirst(vbms).exc # "none"
    /\ err' = IF PyFirst(cbms).exc # "none" THEN PyFirst(cbms).exc
              ELSE PyFirst(vbms).exc
    /\ pc' = "failed"
    /\ UNCHANGED <<kpoints, edgeVars, dataVars>>

Next == FindExtrema \/ ScanStep \/ ScanEnd \/ ReportGaps \/ ReportFails

Spec == Init /\ [][Next]_vars

\* ------------------------------------------------------------- get_data
VSub(a, b) == [i \in 1..3 |-> a[i] - b[i]]

Dot(a, b) == a[1] * b[1] + a[2] * b[2] + a[3] * b[3]

\* 2 * c - k for every k of a list of k-points (lines 104 and 111)
Mirror(kpts, c) == [i \in 1..Len(kpts) |-> [j \in 1..3 |-> 2 * c[j] - kpts[i][j]]]

\* line 84: direction /= norm(direction).  The unit vector is kept as the
\* vector `over` divided by the square root of `norm2`; for the zero vector
\* numpy divides 0.0 by 0.0, every component is nan and nothing is raised.
Normalize(v) == [over |-> v, norm2 |-> Dot(v, v), nan |-> Dot(v, v) = 0]

\* line 77: for x in [-steps, steps]
Offsets(s) == <<-s, s>>

\* line 79
InBounds(start_tmp, x, n) == start_tmp + x > 0 /\ start_tmp + x < n

\* lines 80-119: the dictionary appended for edge and offset x
WindowKeepsRepeat(kpts, bnd, edge, x, s) ==
    LET start_tmp == edge.num - 1
        end_tmp == start_tmp + x
        start == Min2(start_tmp, end_tmp)
        end == Max2(start_tmp, end_tmp)
        vals_tmp == PySlice(bnd, start, end + 1)
        kpts_tmp == PySlice(kpts, start, end + 1)
    IN  [start |-> start_tmp, end |-> end_tmp,
         vals |-> vals_tmp \o Reverse(vals_tmp), label |-> "",
         dir |-> Normalize(VSub(kpts[start + 1], kpts[end + 1])),
         kpoints |-> kpts_tmp \o Reverse(kpts_tmp)]

WindowMirrorsAboutStart(kpts, bnd, edge, x, s) ==
    LET start_tmp == edge.num - 1
        end_tmp == start_tmp + x
        start == Min2(start_tmp, end_tmp)
        end == Max2(start_tmp, end_tmp)
        direction == Normalize(VSub(kpts[start + 1], kpts[end + 1]))
        vals_tmp == PySlice(bnd, start, end + 1)
        kpts_tmp == PySlice(kpts, start, end + 1)
        vals_rev == Reverse(vals_tmp)
        vals == IF x < 0 THEN vals_tmp \o PyTail(vals_rev)
                ELSE vals_rev \o PyTail(vals_tmp)
        kpts_repeated == Mirror(kpts_tmp, kpts_tmp[1])
        kpts_rev == Reverse(kpts_repeated)
        kpts_out == IF x < 0 THEN kpts_tmp \o PyTail(kpts_rev)
                    ELSE kpts_rev \o PyTail(kpts_tmp)
    IN  [start |-> start_tmp, end |-> end_tmp, vals |-> vals, label |-> "",
         dir |-> direction, kpoints |-> kpts_out]

Window(kpts, bnd, edge, x, s) ==
    LET start_tmp == edge.num - 1
        end_tmp == start_tmp + x
        start == Min2(start_tmp, end_tmp)
        end == Max2(start_tmp, end_tmp)
        direction == Normalize(VSub(kpts[start + 1], kpts[end + 1]))
        vals_tmp == PySlice(bnd, start, end + 1)
        kpts_tmp == PySlice(kpts, start, end + 1)
        vals_rev == Reverse(vals_tmp)
        vals == IF x < 0 THEN vals_tmp \o PyTail(vals_rev)
                ELSE vals_rev \o PyTail(vals_tmp)
        kpts_repeated == IF x < 0 THEN Mirror(kpts_tmp, kpts_tmp[s + 1])
                         ELSE Mirror(kpts_tmp, kpts_tmp[1])
        kpts_rev == Reverse(kpts_repeated)
        kpts_out == IF x < 0 THEN kpts_tmp \o PyTail(kpts_rev)
                    ELSE kpts_rev \o PyTail(kpts_tmp)
    IN  [start |-> start_tmp, end |-> end_tmp, vals |-> vals, label |-> "",
         dir |-> direction, kpoints |-> kpts_out]

KPoints == {<<a, KMax - a, 0>> : a \in 0..KMax}

\* the list get_band_edges returns for `bnd` (as a valence band) when the
\* k-indices of `forced` are forced: ascending k-index order
RECURSIVE EdgeList(_, _, _, _, _)
EdgeList(kpts, bnd, forced, t, i) ==
    IF i > Len(bnd) THEN <<>>
    ELSE (IF i \in forced \/ WithinTol(bnd[i], RunningMax(bnd, 1, NegInf), t)
          THEN <<Entry(i, kpts[i], bnd[i])>> ELSE <<>>)
         \o EdgeList(kpts, bnd, forced, t, i + 1)

InitData ==
    /\ tol = 1
    /\ \E n \in 1..MaxPath :
          /\ kpoints \in [1..n -> KPoints]
          /\ band \in [1..n -> Energies]
          /\ \E forced \in SUBSET (1..n) :
                band_edges = EdgeList(kpoints, band, forced, tol, 1)
    /\ steps \in 1..MaxSteps
    /\ data = <<>>
    /\ edge_i = 1
    /\ x_i = 1
    /\ vb = <<>>
    /\ cb = <<>>
    /\ args_vkpts = <<>>
    /\ args_ckpts = <<>>
    /\ lazy_map = FALSE
    /\ vkpts = <<>>
    /\ ckpts = <<>>
    /\ vbm = NegInf
    /\ cbm = Inf
    /\ vbms = <<>>
    /\ cbms = <<>>
    /\ bg_direct = <<[e |-> Inf]>>
    /\ k_num = 1
    /\ bg_indirect = "unset"
    /\ pc = "get_data"
    /\ err = "none"

\* lines 76-77: move to the next x, then to the next edge
Advance ==
    /\ x_i' = IF x_i = 1 THEN 2 ELSE 1
    /\ edge_i' = IF x_i = 1 THEN edge_i ELSE edge_i + 1

\* lines 78-119 when the test of line 79 passes
BuildWindow ==
    /\ pc = "get_data"
    /\ edge_i <= Len(band_edges)
    /\ LET edge == band_edges[edge_i]
           x == Offsets(steps)[x_i]
       IN  /\ InBounds(edge.num - 1, x, Len(band))
           /\ data' = Append(data, Window(kpoints, band, edge, x, steps))
    /\ Advance
    /\ UNCHANGED <<kpoints, edgeVars, band, band_edges, steps, pc, err>>

\* lines 78-79 when the test of line 79 fails: nothing is appended
SkipWindow ==
    /\ pc = "get_data"
    /\ edge_i <= Len(band_edges)
    /\ LET edge == band_edges[edge_i]
           x == Offsets(steps)[x_i]
       IN  ~InBounds(edge.num - 1, x, Len(band))
    /\ Advance
    /\ UNCHANGED <<kpoints, edgeVars, band, band_edges, steps, data, pc, err>>

\* line 120
ReturnData ==
    /\ pc = "get_data"
    /\ edge_i > Len(band_edges)
    /\ pc' = "returned"
    /\ UNCHANGED <<kpoints, edgeVars, dataVars, err>>

NextData == BuildWindow \/ SkipWindow \/ ReturnData

SpecData == InitData /\ [][NextData]_vars

\* ================================================================ claims
N == Len(vb)

Scanned == pc \in {"report", "done", "failed"}

MaxOf(seq) == CHOOSE m \in Range(seq) : \A y \in Range(seq) : y <= m

MinOf(seq) == CHOOSE m \in Range(seq) : \A y \in Range(seq) : m <= y

GapAt(i) == cb[i] - vb[i]

MinGap == CHOOSE m \in {GapAt(i) : i \in 1..N} : \A i \in 1..N : m <= GapAt(i)

Nums(list) == {list[i].num : i \in 1..Len(list)}

\* the k-indices of 1..n satisfying P, ascending, each with k-point and energy
RECURSIVE PointsOf(_, _, _, _)
PointsOf(bnd, forced, ext, i) ==
    IF i > Len(bnd) THEN <<>>
    ELSE (IF i \in forced \/ Abs(bnd[i] - ext) < tol
          THEN <<[num |-> i, loc |-> kpoints[i], e |-> bnd[i]]>> ELSE <<>>)
         \o PointsOf(bnd, forced, ext, i + 1)

(* C1: for N >= 1 and tol > 0, vbm_points is exactly the k-indices that are
   forced or within tol of max(vb), once each, ascending, each with its
   k-point and energy; cbm_points likewise with cb, min(cb) and the forced
   conduction indices. *)
C1_EdgePointsExact ==
    (Scanned /\ N >= 1) =>
        /\ vbms = PointsOf(vb, Range(args_vkpts), MaxOf(vb), 1)
        /\ cbms = PointsOf(cb, Range(args_ckpts), MinOf(cb), 1)

(* C2: once get_data has returned, for every extremum at 0-based index p and
   each offset x in {-steps, +steps} there is a window for (p, x) exactly
   when 0 <= p + x < N, and no error was raised. *)
C2_WindowIffInPath ==
    pc = "returned" =>
        /\ err = "none"
        /\ \A ei \in 1..Len(band_edges) : \A xi \in 1..2 :
              LET p == band_edges[ei].num - 1
                  x == Offsets(steps)[xi]
              IN  (0 <= p + x /\ p + x < Len(band))
                  <=> (\E w \in 1..Len(data) :
                          data[w].start = p /\ data[w].end = p + x)

(* C3: every window built by get_data has exactly 2*steps+1 energies and
   exactly 2*steps+1 k-points. *)
C3_WindowLength ==
    \A w \in 1..Len(data) :
        /\ Len(data[w].vals) = 2 * steps + 1
        /\ Len(data[w].kpoints) = 2 * steps + 1

\* get_data has returned windows of both offset signs
C3_Witness ==
    /\ pc = "returned"
    /\ \E w \in 1..Len(data) : data[w].end < data[w].start
    /\ \E w \in 1..Len(data) : data[w].end > data[w].start

(* C4: after the scan, any two k-indices i < j that both have the minimum
   direct gap of the path are both in direct_gap_points, i before j. *)
C4_CoMinimalBothListed ==
    Scanned =>
        \A i \in 1..N : \A j \in 1..N :
            (i < j /\ GapAt(i) = MinGap /\ GapAt(j) = MinGap) =>
                \E a \in 1..Len(bg_direct) : \E b \in 1..Len(bg_direct) :
                    a < b /\ bg_direct[a].num = i /\ bg_direct[b].num = j

(* C5 as stated: if exactly one k-index has a direct gap strictly smaller
   than the gap at every other k-index, direct_gap_points ends with exactly
   one entry. *)
C5_SingleMinimumSingleEntry ==
    (Scanned /\ N >= 1) =>
        ((\E i \in 1..N : \A j \in 1..N : j # i => GapAt(i) < GapAt(j))
            => Len(bg_direct) = 1)

(* C5 amended: if one k-index has a direct gap smaller by more than tol than
   the gap at every other k-index, direct_gap_points ends with exactly one
   entry. *)
C5_ClearMinimumSingleEntry ==
    (Scanned /\ N >= 1) =>
        ((\E i \in 1..N : \A j \in 1..N : j # i => GapAt(j) - GapAt(i) > tol)
            => Len(bg_direct) = 1)

\* a finished scan whose clear minimum came after larger gaps
C5_Witness ==
    /\ pc = "done"
    /\ N >= 3
    /\ \E i \in 2..N : \A j \in 1..N : j # i => GapAt(j) - GapAt(i) > tol
    /\ Len(bg_direct) = 1

(* C6: the indirect gap equals the energy of the lowest-k-index entry of
   cbm_points minus the energy of the lowest-k-index entry of vbm_points,
   also when that entry is there only because its k-index was forced. *)
C6_IndirectGapFirstFound ==
    pc = "done" =>
        LET vf == CHOOSE i \in Nums(vbms) : \A h \in Nums(vbms) : i <= h
            cf == CHOOSE i \in Nums(cbms) : \A h \in Nums(cbms) : i <= h
        IN  /\ vbms[1].num = vf
            /\ cbms[1].num = cf
            /\ bg_indirect = cb[cf] - vb[vf]

\* the first valence entry is forced and not within tol of the maximum
C6_Witness ==
    /\ pc = "done"
    /\ vbms[1].num \in Range(args_vkpts)
    /\ Abs(vbms[1].e - MaxOf(vb)) >= tol
    /\ bg_indirect # MinOf(cb) - MaxOf(vb)

(* C7: with an empty valence or conduction sequence the edge
   finder fails with InvalidInput and produces no points and no gaps. *)
C7_EmptyGivesInvalidInput ==
    ((Len(vb) = 0 \/ Len(cb) = 0) /\ pc \in {"done", "failed"}) =>
        /\ pc = "failed"
        /\ err = "InvalidInput"

(* C8: in a scan step, an unforced k-index whose band energy is
   exactly tol from the true extremum is not added to vbm_points
   (cbm_points), whereas a k-index whose direct gap is exactly tol from the
   gap of the current cluster is added to direct_gap_points. *)
C8_BoundaryAsymmetry ==
    [][(pc = "scan" /\ k_num <= N) =>
         /\ (k_num \notin Range(args_vkpts) /\ Abs(vb[k_num] - vbm) = tol)
                => vbms' = vbms
         /\ (k_num \notin Range(args_ckpts) /\ Abs(cb[k_num] - cbm) = tol)
                => cbms' = cbms
         /\ Abs(bg_direct[1].e - GapAt(k_num)) = tol
                => k_num \in Nums(bg_direct')]_vars

(* C9: no window is produced whose defining k-points k[start] and k[end]
   coincide or whose direction is undefined (building such a window fails
   with DegenerateDirection, so it never reaches the returned list). *)
C9_DegenerateDirectionFails ==
    \A w \in 1..Len(data) :
        /\ kpoints[data[w].start + 1] # kpoints[data[w].end + 1]
        /\ ~data[w].dir.nan

(* C10: after the scan of a path of length N >= 1, the reported direct gap
   (gap of the first cluster entry) exceeds the true minimum of cb[i]-vb[i]
   by at most tol, every cluster entry has a gap differing from the
   reported one by less than tol, and the entries are in strictly ascending
   k-index order. *)
C10_ClusterInvariant ==
    (Scanned /\ N >= 1) =>
        /\ bg_direct[1].e - MinGap <= tol
        /\ \A a \in 1..Len(bg_direct) :
              Abs(bg_direct[a].e - bg_direct[1].e) < tol
        /\ \A a \in 1..Len(bg_direct) : \A b \in 1..Len(bg_direct) :
              a < b => bg_direct[a].num < bg_direct[b].num

\* a finished scan with several cluster entries whose reported gap is
\* exactly tol above the true minimum
C10_Witness ==
    /\ pc = "done"
    /\ Len(bg_direct) >= 2
    /\ bg_direct[1].e - MinGap = tol
    /\ \E a \in 2..Len(bg_direct) : bg_direct[a].e # bg_direct[1].e

(* C11: every window built by get_data for an extremum at 0-based index p
   with steps = s is centred on the extremum and mirror-symmetric: the
   sample at position s has energy band[p] and k-point k[p], and for every
   j in 0..s the energies at positions s-j and s+j are equal and the
   k-points at positions s-j and s+j sum to 2*k[p], for both offset signs. *)
C11_WindowCentredSymmetric ==
    \A w \in 1..Len(data) :
        LET p == data[w].start
            s == steps
            vals == data[w].vals
            kpts == data[w].kpoints
        IN  /\ vals[s + 1] = band[p + 1]
            /\ kpts[s + 1] = kpoints[p + 1]
            /\ \A j \in 0..s :
                  /\ vals[s + 1 - j] = vals[s + 1 + j]
                  /\ \A c \in 1..3 :
                        kpts[s + 1 - j][c] + kpts[s + 1 + j][c]
                            = 2 * kpoints[p + 1][c]

\* get_data has returned a backward and a forward window whose far k-point
\* and far energy differ from those of the extremum
C11_Witness ==
    /\ pc = "returned"
    /\ \E w \in 1..Len(data) :
          /\ data[w].end < data[w].start
          /\ kpoints[data[w].end + 1] # kpoints[data[w].start + 1]
          /\ band[data[w].end + 1] # band[data[w].start + 1]
    /\ \E w \in 1..Len(data) :
          /\ data[w].end > data[w].start
          /\ kpoints[data[w].end + 1] # kpoints[data[w].start + 1]
          /\ band[data[w].end + 1] # band[data[w].start + 1]

====
